---------------------------- MODULE Spec2Model ----------------------------
(***************************************************************************)
(* Chunk generation of src/src/chunkWorker.ts: generateChunk allocates an  *)
(* empty grid and runs generateResources, generateTerrain and              *)
(* generateTrees on it in that order.  The three generators are exported   *)
(* and can also be called directly on a grid of the caller.                *)
(*                                                                         *)
(* Real numbers are dyadic rationals kept as integers:                     *)
(*   - a noise value v stands for v / 2          (v in -2 .. 2)            *)
(*   - a parameter p (offset, magnitude, frequency, density) for p / 4     *)
(*   - a coordinate c handed to the noise field for c / 2                  *)
(*   - an RNG state s in 1 .. 30 yields the draw (s - 1) / 30 in [0, 1)    *)
(***************************************************************************)
EXTENDS Integers, Sequences, FiniteSets, TLC

VARIABLES
    entry,      \* the exported function the caller invoked
    chunkSize,  \* WorldSize {width, height}
    params,     \* WorldParams
    chunkPos,   \* chunk origin <<x, z>> (y is 0)
    data,       \* the grid data[x][y][z]; <<>> before allocation
    rng,        \* state of the RNG object
    simplex,    \* the SimplexNoise instance of the running stage
    pc,         \* position: "call", "resources", "terrain", "trees", "scan",
                \* "trunk", "canopy", "done" (returned), "crashed" (raised)
    ore,        \* generateResources: index of the oreConfig entry
    col,        \* generateTerrain: <<x, 0>>; generateTrees: <<baseX, baseZ>>
    scanY,      \* generateTrees: y of the grass scan
    tree,       \* generateTrees: locals of the tree being built
    calls,      \* number of generateChunk calls started
    first,      \* grid returned by the first generateChunk call
    hist        \* history: what the stages computed and wrote

vars == <<entry, chunkSize, params, chunkPos, data, rng, simplex, pc, ore,
          col, scanY, tree, calls, first, hist>>

----------------------------------------------------------------------------
(* Bounds of the model. *)

MaxWidth == 4

MaxHeight == 5

MaxSeed == 2

----------------------------------------------------------------------------
(* Block identifiers and the ore configuration (./Block). *)

BlockID == [Air |-> "Air", Bedrock |-> "Bedrock", Stone |-> "Stone",
            Dirt |-> "Dirt", Grass |-> "Grass", OakLog |-> "OakLog",
            Leaves |-> "Leaves", CoalOre |-> "CoalOre",
            IronOre |-> "IronOre"]

oreConfig ==
    << [id |-> BlockID.CoalOre, scale |-> [x |-> 2, y |-> 2, z |-> 2],
        scarcity |-> 1],
       [id |-> BlockID.IronOre, scale |-> [x |-> 1, y |-> 2, z |-> 1],
        scarcity |-> 3] >>

OreIDs == {oreConfig[i].id : i \in 1..Len(oreConfig)}

----------------------------------------------------------------------------
(* Arithmetic helpers. *)

Abs(n) == IF n < 0 THEN -n ELSE n

Min(a, b) == IF a < b THEN a ELSE b

Max(a, b) == IF a > b THEN a ELSE b

\* Math.floor(n / d) for d > 0
FloorDiv(n, d) == IF n >= 0 THEN n \div d ELSE -((-n + d - 1) \div d)

\* Math.round(n / d) for d > 0: the nearest integer, halves rounded up
RoundDiv(n, d) == FloorDiv(2 * n + d, 2 * d)

----------------------------------------------------------------------------
(* The seeded RNG (./RNG) and the noise field (three.js SimplexNoise).     *)
(* Both are deterministic black boxes: the RNG a Lehmer generator with     *)
(* states 1 .. 30, the noise a fixed function of the state the RNG was in  *)
(* when the field was built and of the sampled coordinate.                 *)

NewRNG(seed) == (seed % 30) + 1

RngNext(s) == (3 * s) % 31

\* numerator of the draw rng.random() over 30
RngValue(s) == s - 1

RECURSIVE PowMod31(_, _)
PowMod31(b, e) ==
    IF e = 0 THEN 1
    ELSE LET h == PowMod31(b, e \div 2)
         IN  IF e % 2 = 0 THEN (h * h) % 31 ELSE (((h * h) % 31) * b) % 31

\* the state after n draws
RngSkip(s, n) == (PowMod31(3, n) * s) % 31

\* new SimplexNoise(rng) fills its 256-entry permutation from rng.random()
SimplexKey(s) == s

RngAfterSimplex(s) == RngSkip(s, 256)

\* simplex.noise(a / 2, b / 2), in halves: a value of -2 .. 2
Noise2D(key, a, b) ==
    ((key * 7 + a * 3 + b * 5 + a * b + (a \div 2) * (b \div 3)) % 5) - 2

\* simplex.noise3d(a / 2, b / 2, c / 2), in halves
Noise3D(key, a, b, c) ==
    ((key * 3 + a * 7 + b * 5 + c * 11 + a * b + b * c + (a * c) \div 2) % 5) - 2

\* n / scale as a coordinate in halves (scale is 1 or 2)
Coord(n, scale) == (2 * n) \div scale

----------------------------------------------------------------------------
(* Grid helpers. *)

Width == chunkSize.width

Height == chunkSize.height

Xs == 0 .. (Width - 1)

Ys == 0 .. (Height - 1)

Columns == Xs \X Xs

Cells == Xs \X Ys \X Xs

\* the block of cell c = <<x, y, z>>
At(grid, c) == grid[c[1]][c[2]][c[3]]

\* the grid with cell (x, y, z) set to b
SetCell(grid, x, y, z, b) == [grid EXCEPT ![x][y][z] = b]

initEmptyChunk(size) ==
    [x \in 0 .. (size.width - 1) |->
        [y \in 0 .. (size.height - 1) |->
            [z \in 0 .. (size.width - 1) |-> BlockID.Air]]]

----------------------------------------------------------------------------
(* generateResources: one pass over the whole grid per oreConfig entry. *)

\* value > config.scarcity, value in halves and scarcity in quarters
ExceedsScarcity(value, scarcity) == 2 * value > scarcity

OreValue(config, x, y, z) ==
    Noise3D(simplex, Coord(chunkPos[1] + x, config.scale.x),
                     Coord(0 + y, config.scale.y),
                     Coord(chunkPos[2] + z, config.scale.z))

OrePass(grid, config) ==
    [x \in Xs |-> [y \in Ys |-> [z \in Xs |->
        IF ExceedsScarcity(OreValue(config, x, y, z), config.scarcity)
        THEN config.id
        ELSE grid[x][y][z]]]]

----------------------------------------------------------------------------
(* generateTerrain: one iteration of the x loop per step. *)

\* Math.floor(size.height * scaledNoise), clamped into 0 .. height - 1;
\* scaledNoise = offset / 4 + (magnitude / 4) * (value / 2)
TerrainHeight(value) ==
    LET scaled8 == 2 * params.terrain.offset + params.terrain.magnitude * value
        raw == FloorDiv(Height * scaled8, 8)
    IN  Max(0, Min(raw, Height - 1))

\* offset + Math.abs(noise * magnitude), in eighths of a block
Thickness8(band, noise) == 2 * band.offset + Abs(noise * band.magnitude)

\* mutant: the y > height branch is missing, blocks above the surface stay
TerrainCell_KeepAbove(old, y, height, surface8, bedrock8) ==
    IF y < height
    THEN IF 8 * y < bedrock8 THEN BlockID.Bedrock
         ELSE IF 8 * y < 8 * height - surface8
              THEN (IF old = BlockID.Air THEN BlockID.Stone ELSE old)
              ELSE BlockID.Dirt
    ELSE IF y = height THEN BlockID.Grass
    ELSE old

\* mutant: Dirt, like Stone, is placed only into Air
TerrainCell_DirtIntoAir(old, y, height, surface8, bedrock8) ==
    IF y < height
    THEN IF 8 * y < bedrock8 THEN BlockID.Bedrock
         ELSE IF 8 * y < 8 * height - surface8
              THEN (IF old = BlockID.Air THEN BlockID.Stone ELSE old)
              ELSE (IF old = BlockID.Air THEN BlockID.Dirt ELSE old)
    ELSE IF y = height THEN BlockID.Grass
    ELSE BlockID.Air

\* mutant: the surface tests are off by one (y <= height, y === height + 1)
TerrainCell_GrassAbove(old, y, height, surface8, bedrock8) ==
    IF y <= height
    THEN IF 8 * y < bedrock8 THEN BlockID.Bedrock
         ELSE IF 8 * y < 8 * height - surface8
              THEN (IF old = BlockID.Air THEN BlockID.Stone ELSE old)
              ELSE BlockID.Dirt
    ELSE IF y = height + 1 THEN BlockID.Grass
    ELSE BlockID.Air

\* the block the y loop leaves at height y of a column
TerrainCell(old, y, height, surface8, bedrock8) ==
    IF y < height
    THEN IF 8 * y < bedrock8 THEN BlockID.Bedrock
         ELSE IF 8 * y < 8 * height - surface8
              THEN (IF old = BlockID.Air THEN BlockID.Stone ELSE old)
              ELSE BlockID.Dirt
    ELSE IF y = height THEN BlockID.Grass
    ELSE BlockID.Air

\* what generateTerrain computes for column (x, z) before its y loop
ColumnInfo(x, z) ==
    LET value == Noise2D(simplex, Coord(chunkPos[1] + x, params.terrain.scale),
                                  Coord(chunkPos[2] + z, params.terrain.scale))
        local == Noise2D(simplex, Coord(x, 1), Coord(z, 1))
    IN  [height |-> TerrainHeight(value),
         surface8 |-> Thickness8(params.surface, local),
         bedrock8 |-> Thickness8(params.bedrock, local)]

\* the rows data[x] after the z and y loops ran for this x
TerrainSlab(grid, x) ==
    [y \in Ys |-> [z \in Xs |->
        LET info == ColumnInfo(x, z)
        IN  TerrainCell(grid[x][y][z], y, info.height, info.surface8,
                        info.bedrock8)]]

----------------------------------------------------------------------------
(* generateTrees. *)

canopySize == params.trees.canopy.size.max

\* baseX and baseZ both run over canopySize .. width - canopySize - 1
InTreeRange(c) == c[1] < Width - canopySize

NextBase(c) == IF c[2] + 1 < Width - canopySize THEN <<c[1], c[2] + 1>>
               ELSE <<c[1] + 1, canopySize>>

\* n < 1 - frequency with n = noise * 0.5 + 0.5; noise in halves,
\* frequency in quarters
BelowFrequency(noise, frequency) == noise + 2 < 4 - frequency

TreeNoise(c) == Noise2D(simplex, Coord(chunkPos[1] + c[1], 1),
                                 Coord(chunkPos[2] + c[2], 1))

\* the y at or below from whose cell of column c is Grass, -1 when none:
\* where the scan loop next reaches the code after its continue
GrassAtOrBelow(grid, c, from) ==
    LET ys == {y \in 0 .. from : grid[c[1]][y][c[2]] = BlockID.Grass}
    IN  IF ys = {} THEN -1 ELSE CHOOSE y \in ys : \A w \in ys : w <= y

\* Math.round(rng.random() * (max - min)) + min for the draw of state s
DrawRange(s, range) ==
    RoundDiv(RngValue(s) * (range.max - range.min), 30) + range.min

\* rng.random() > density for the draw of state s
AboveDensity(s, density) == 4 * RngValue(s) > 30 * density

\* mutant: the trunk starts at the Grass cell itself (baseY = y)
TrunkCells_FromGrass(grid, c, baseY, topY) ==
    [grid EXCEPT ![c[1]] = [y \in DOMAIN grid[c[1]] |->
        IF baseY - 1 <= y /\ y < topY
        THEN [grid[c[1]][y] EXCEPT ![c[2]] = BlockID.OakLog]
        ELSE grid[c[1]][y]]]

\* the grid after the trunk loop wrote the cells i of baseY .. topY - 1 that
\* exist (the write to the first missing row raises)
TrunkCells(grid, c, baseY, topY) ==
    [grid EXCEPT ![c[1]] = [y \in DOMAIN grid[c[1]] |->
        IF baseY <= y /\ y < topY
        THEN [grid[c[1]][y] EXCEPT ![c[2]] = BlockID.OakLog]
        ELSE grid[c[1]][y]]]

TrunkRaises(baseY, topY) == baseY < topY /\ topY > Height

InSphere(o, R) == ~(o[1] * o[1] + o[2] * o[2] + o[3] * o[3] > R * R)

\* the offset after o in the loops x, y, z over -R .. R; x = R + 1 at the end
SuccOffset(o, R) ==
    IF o[3] < R THEN <<o[1], o[2], o[3] + 1>>
    ELSE IF o[2] < R THEN <<o[1], o[2] + 1, -R>>
    ELSE <<o[1] + 1, -R, -R>>

RECURSIVE SkipToSphere(_, _)
\* o, or the first offset after it that passes the radius test
SkipToSphere(o, R) ==
    IF o[1] > R \/ InSphere(o, R) THEN o ELSE SkipToSphere(SuccOffset(o, R), R)

\* input[baseX + x][topY + y] is undefined: reading its [baseZ + z] raises
CanopyRaises(c, topY, o) ==
    \/ c[1] + o[1] \notin Xs
    \/ topY + o[2] \notin Ys

\* the cell the canopy loop reads; undefined when z is outside the row
CanopyRead(grid, c, topY, o) ==
    IF c[2] + o[3] \in Xs THEN grid[c[1] + o[1]][topY + o[2]][c[2] + o[3]]
    ELSE "undefined"

\* mutant: only the trunk is protected from the leaves
CanopySkips_OnlyTrunk(block) == block = BlockID.OakLog

\* "don't overwrite existing blocks"
CanopySkips(block) == block # BlockID.Air

----------------------------------------------------------------------------
(* Inputs. *)

Seeds == 0 .. MaxSeed

Sizes == [width : 1 .. MaxWidth, height : 1 .. MaxHeight]

TerrainParams == {[scale |-> 1, offset |-> 2, magnitude |-> 4],
                  [scale |-> 2, offset |-> 1, magnitude |-> 2]}

SurfaceParams == {[offset |-> 2, magnitude |-> 4]}

BedrockParams == {[offset |-> 4, magnitude |-> 4]}

TreeParams ==
    [frequency : {0, 2, 4},
     trunkHeight : {[min |-> 1, max |-> 2]},
     canopy : [density : {0, 2, 4},
               size : {[min |-> 0, max |-> 0], [min |-> 0, max |-> 1]}]]

WorldParams ==
    [seed : Seeds, terrain : TerrainParams, surface : SurfaceParams,
     bedrock : BedrockParams, trees : TreeParams]

\* chunk origins: chunk k along x starts at x = k * width
Origin(size, k) == <<k * size.width, 0>>

\* the grids a direct caller of generateTerrain or generateTrees hands in:
\* any block may sit anywhere (Soup), or ground with Grass ledges above
\* Grass (Ledges)
Palette == <<BlockID.Air, BlockID.Grass, BlockID.Air, BlockID.Stone,
             BlockID.Grass, BlockID.OakLog, BlockID.Dirt, BlockID.Air,
             BlockID.Leaves, BlockID.CoalOre, BlockID.Air, BlockID.Bedrock,
             BlockID.IronOre>>

Soup(size, seed) ==
    [x \in 0 .. (size.width - 1) |->
        [y \in 0 .. (size.height - 1) |->
            [z \in 0 .. (size.width - 1) |->
                Palette[((seed * 5 + x * 3 + y * 7 + z * 4 + x * y + y * z)
                         % Len(Palette)) + 1]]]]

Ledges(size, seed) ==
    [x \in 0 .. (size.width - 1) |->
        [y \in 0 .. (size.height - 1) |->
            [z \in 0 .. (size.width - 1) |->
                IF y = 0 THEN BlockID.Grass
                ELSE IF y = 1 /\ (x + z + seed) % 2 = 0 THEN BlockID.Grass
                ELSE IF y = 1 /\ (x + seed) % 3 = 0 THEN BlockID.Stone
                ELSE BlockID.Air]]]

InputGrids(size, seed) == {Soup(size, seed), Ledges(size, seed)}

NoTree == [baseY |-> 0, topY |-> 0, R |-> 0, off |-> <<0, 0, 0>>]

NoWrite == [cell |-> <<>>, old |-> "none", new |-> "none"]

\* input: the grid a direct caller handed in; cols: what generateTerrain
\* computed per column; terrain: the grid it returned; treesIn: the grid
\* generateTrees was handed; write: the last Leaves write; skip: the last
\* block the canopy left alone; planted, draws: trunks built and RNG draws
\* made for the current candidate column
NoHist == [input |-> <<>>, cols |-> [c \in {} |-> 0], terrain |-> <<>>,
           treesIn |-> <<>>,
           write |-> NoWrite, skip |-> "none", planted |-> 0, draws |-> 0]

InitWith(entries, sizes, worldParams, chunks) ==
    /\ entry \in entries
    /\ chunkSize \in sizes
    /\ params \in worldParams
    /\ chunkPos \in {Origin(chunkSize, k) : k \in chunks}
    /\ data \in IF entry = "generateChunk" THEN {<<>>}
                ELSE InputGrids(chunkSize, params.seed)
    /\ rng = NewRNG(params.seed)
    /\ simplex = 0
    /\ pc = "call"
    /\ ore = 0
    /\ col = <<0, 0>>
    /\ scanY = 0
    /\ tree = NoTree
    /\ calls = 0
    /\ first = <<>>
    /\ hist = [NoHist EXCEPT !.input = data]

Init == InitWith({"generateChunk", "generateTerrain", "generateTrees"},
                 Sizes, WorldParams, {0, 1})

----------------------------------------------------------------------------
(* Entering a stage: each generator first builds its own noise field from  *)
(* the RNG it was handed.                                                  *)

EnterResources(r) ==
    /\ simplex' = SimplexKey(r)
    /\ rng' = RngAfterSimplex(r)
    /\ pc' = "resources"
    /\ ore' = 1
    /\ UNCHANGED <<col, scanY, tree>>

EnterTerrain(r) ==
    /\ simplex' = SimplexKey(r)
    /\ rng' = RngAfterSimplex(r)
    /\ pc' = "terrain"
    /\ col' = <<0, 0>>
    /\ UNCHANGED <<ore, scanY, tree>>

EnterTrees(r) ==
    /\ simplex' = SimplexKey(r)
    /\ rng' = RngAfterSimplex(r)
    /\ pc' = "trees"
    /\ col' = <<canopySize, canopySize>>
    /\ UNCHANGED <<ore, scanY, tree>>

\* mutant: one RNG object is shared by all generateChunk calls
FreshRNG_Shared == rng

\* line 19: every generateChunk call builds its own RNG from the seed
FreshRNG == NewRNG(params.seed)

\* generateChunk, lines 17-20: allocate, seed the RNG, enter generateResources
CallGenerateChunk ==
    /\ pc = "call"
    /\ entry = "generateChunk"
    /\ data' = initEmptyChunk(chunkSize)
    /\ EnterResources(FreshRNG)
    /\ calls' = calls + 1
    /\ hist' = NoHist
    /\ UNCHANGED <<entry, chunkSize, params, chunkPos, first>>

\* a second, independent generateChunk call with the same arguments
CallGenerateChunkAgain ==
    /\ pc = "done"
    /\ entry = "generateChunk"
    /\ calls = 1
    /\ first' = data
    /\ data' = initEmptyChunk(chunkSize)
    /\ EnterResources(FreshRNG)
    /\ calls' = calls + 1
    /\ hist' = NoHist
    /\ UNCHANGED <<entry, chunkSize, params, chunkPos>>

\* a direct call of generateTerrain on the caller's grid and RNG
CallGenerateTerrain ==
    /\ pc = "call"
    /\ entry = "generateTerrain"
    /\ EnterTerrain(rng)
    /\ UNCHANGED <<entry, chunkSize, params, chunkPos, data, calls, first, hist>>

\* a direct call of generateTrees on the caller's grid and RNG
CallGenerateTrees ==
    /\ pc = "call"
    /\ entry = "generateTrees"
    /\ EnterTrees(rng)
    /\ hist' = [hist EXCEPT !.treesIn = data]
    /\ UNCHANGED <<entry, chunkSize, params, chunkPos, data, calls, first>>

----------------------------------------------------------------------------
(* generateResources, lines 52-70. *)

ResourcePass ==
    /\ pc = "resources"
    /\ ore <= Len(oreConfig)
    /\ data' = OrePass(data, oreConfig[ore])
    /\ ore' = ore + 1
    /\ UNCHANGED <<entry, chunkSize, params, chunkPos, rng, simplex, pc, col,
                   scanY, tree, calls, first, hist>>

\* return input; generateChunk goes on to generateTerrain (line 21)
ResourcesReturn ==
    /\ pc = "resources"
    /\ ore > Len(oreConfig)
    /\ EnterTerrain(rng)
    /\ UNCHANGED <<entry, chunkSize, params, chunkPos, data, calls, first, hist>>

----------------------------------------------------------------------------
(* generateTerrain, lines 84-125. *)

TerrainColumns ==
    /\ pc = "terrain"
    /\ col[1] < Width
    /\ data' = [data EXCEPT ![col[1]] = TerrainSlab(data, col[1])]
    /\ hist' = [hist EXCEPT !.cols =
                 [c \in DOMAIN @ \cup ({col[1]} \X Xs) |->
                    IF c[1] = col[1] THEN ColumnInfo(c[1], c[2]) ELSE @[c]]]
    /\ col' = <<col[1] + 1, 0>>
    /\ UNCHANGED <<entry, chunkSize, params, chunkPos, rng, simplex, pc, ore,
                   scanY, tree, calls, first>>

\* return input; generateChunk goes on to generateTrees (line 22)
TerrainReturn ==
    /\ pc = "terrain"
    /\ ~(col[1] < Width)
    /\ IF entry = "generateChunk"
       THEN /\ EnterTrees(rng)
            /\ hist' = [hist EXCEPT !.terrain = data, !.treesIn = data]
       ELSE /\ pc' = "done"
            /\ hist' = [hist EXCEPT !.terrain = data]
            /\ UNCHANGED <<rng, simplex, ore, col, scanY, tree>>
    /\ UNCHANGED <<entry, chunkSize, params, chunkPos, data, calls, first>>

----------------------------------------------------------------------------
(* generateTrees, lines 140-196. *)

\* lines 142-146: the frequency test of a candidate column
TreeCandidate ==
    /\ pc = "trees"
    /\ InTreeRange(col)
    /\ IF BelowFrequency(TreeNoise(col), params.trees.frequency)
       THEN /\ col' = NextBase(col)
            /\ UNCHANGED <<pc, scanY>>
       ELSE /\ pc' = "scan"
            /\ scanY' = Height - 1
            /\ UNCHANGED col
    /\ hist' = [hist EXCEPT !.planted = 0, !.draws = 0]
    /\ UNCHANGED <<entry, chunkSize, params, chunkPos, data, rng, simplex, ore,
                   tree, calls, first>>

\* lines 149-152: the scan runs down to the next Grass cell, or off the column
TreeScan ==
    /\ pc = "scan"
    /\ LET y == GrassAtOrBelow(data, col, scanY)
       IN  IF y < 0
           THEN /\ pc' = "trees"
                /\ col' = NextBase(col)
                /\ UNCHANGED scanY
           ELSE /\ pc' = "trunk"
                /\ scanY' = y
                /\ UNCHANGED col
    /\ UNCHANGED <<entry, chunkSize, params, chunkPos, data, rng, simplex, ore,
                   tree, calls, first, hist>>

\* lines 155-170: the trunk above the Grass cell at scanY, then the radius
TreeTrunk ==
    /\ pc = "trunk"
    /\ LET baseY == scanY + 1
           s1 == RngNext(rng)
           trunkHeight == DrawRange(s1, params.trees.trunkHeight)
           topY == baseY + trunkHeight
           s2 == RngNext(s1)
           R == DrawRange(s2, params.trees.canopy.size)
       IN  /\ data' = TrunkCells(data, col, baseY, topY)
           /\ IF TrunkRaises(baseY, topY)
              THEN /\ pc' = "crashed"
                   /\ rng' = s1
                   /\ tree' = [NoTree EXCEPT !.baseY = baseY, !.topY = topY]
                   /\ hist' = [hist EXCEPT !.planted = @ + 1, !.draws = @ + 1]
              ELSE /\ pc' = "canopy"
                   /\ rng' = s2
                   /\ tree' = [baseY |-> baseY, topY |-> topY, R |-> R,
                               off |-> SkipToSphere(<<-R, -R, -R>>, R)]
                   /\ hist' = [hist EXCEPT !.planted = @ + 1, !.draws = @ + 2]
    /\ UNCHANGED <<entry, chunkSize, params, chunkPos, simplex, ore, col,
                   scanY, calls, first>>

\* lines 176-188 for the offset tree.off, which passed the radius test
TreeLeaf ==
    /\ pc = "canopy"
    /\ tree.off[1] <= tree.R
    /\ IF CanopyRaises(col, tree.topY, tree.off)
       THEN /\ pc' = "crashed"
            /\ UNCHANGED <<data, rng, tree, hist>>
       ELSE LET o == tree.off
                cell == <<col[1] + o[1], tree.topY + o[2], col[2] + o[3]>>
                block == CanopyRead(data, col, tree.topY, o)
                s1 == RngNext(rng)
            IN  /\ tree' = [tree EXCEPT
                              !.off = SkipToSphere(SuccOffset(o, tree.R), tree.R)]
                /\ pc' = pc
                /\ IF CanopySkips(block)
                   THEN /\ hist' = [hist EXCEPT !.skip = block]
                        /\ UNCHANGED <<data, rng>>
                   ELSE /\ rng' = s1
                        /\ IF AboveDensity(s1, params.trees.canopy.density)
                           THEN /\ data' = SetCell(data, cell[1], cell[2],
                                                   cell[3], BlockID.Leaves)
                                /\ hist' = [hist EXCEPT !.write =
                                              [cell |-> cell,
                                               old |-> At(data, cell),
                                               new |-> BlockID.Leaves]]
                           ELSE UNCHANGED <<data, hist>>
    /\ UNCHANGED <<entry, chunkSize, params, chunkPos, simplex, ore, col,
                   scanY, calls, first>>

\* the canopy loops end; the scan loop goes on below the Grass cell (line 149)
TreeCanopyEnd ==
    /\ pc = "canopy"
    /\ tree.off[1] > tree.R
    /\ pc' = "scan"
    /\ scanY' = scanY - 1
    /\ UNCHANGED <<entry, chunkSize, params, chunkPos, data, rng, simplex, ore,
                   col, tree, calls, first, hist>>

\* return input
TreesReturn ==
    /\ pc = "trees"
    /\ ~InTreeRange(col)
    /\ pc' = "done"
    /\ UNCHANGED <<entry, chunkSize, params, chunkPos, data, rng, simplex, ore,
                   col, scanY, tree, calls, first, hist>>

----------------------------------------------------------------------------

Next ==
    \/ CallGenerateChunk
    \/ CallGenerateChunkAgain
    \/ CallGenerateTerrain
    \/ CallGenerateTrees
    \/ ResourcePass
    \/ ResourcesReturn
    \/ TerrainColumns
    \/ TerrainReturn
    \/ TreeCandidate
    \/ TreeScan
    \/ TreeTrunk
    \/ TreeLeaf
    \/ TreeCanopyEnd
    \/ TreesReturn

Spec == Init /\ [][Next]_vars

----------------------------------------------------------------------------
(* The flat-terrain scenario: one generateChunk call for a 16 x 64 x 16     *)
(* chunk at the origin with terrain.offset = 0.5 and terrain.magnitude = 0. *)

FlatSize == [width |-> 16, height |-> 64]

FlatTreeParams ==
    [frequency : {0, 2, 4},
     trunkHeight : {[min |-> 1, max |-> 2]},
     canopy : [density : {2},
               size : {[min |-> 1, max |-> 2], [min |-> 0, max |-> 7]}]]

FlatParams ==
    [seed : Seeds,
     terrain : {[scale |-> 1, offset |-> 2, magnitude |-> 0]},
     surface : SurfaceParams, bedrock : BedrockParams,
     trees : FlatTreeParams]

InitFlat == InitWith({"generateChunk"}, {FlatSize}, FlatParams, {0})

NextFlat ==
    \/ CallGenerateChunk
    \/ ResourcePass
    \/ ResourcesReturn
    \/ TerrainColumns
    \/ TerrainReturn
    \/ TreeCandidate
    \/ TreeScan
    \/ TreeTrunk
    \/ TreeLeaf
    \/ TreeCanopyEnd
    \/ TreesReturn

SpecFlat == InitFlat /\ [][NextFlat]_vars

----------------------------------------------------------------------------
(* Properties. *)

\* generateTerrain has returned (by itself or within generateChunk)
TerrainDone == hist.terrain # <<>>

\* generateTrees was entered
TreesEntered == hist.treesIn # <<>>

Count(grid, block) == Cardinality({c \in Cells : At(grid, c) = block})

\* C1: under a valid configuration generateChunk runs its three stages to
\* completion and never raises: no stage touches a cell outside the grid.
\* Stated for the configurations with trees.frequency > 0, where trees are
\* meant to grow.
C1_NeverRaises ==
    (entry = "generateChunk" /\ params.trees.frequency > 0) => pc # "crashed"

\* C2: two independent generateChunk calls with the same arguments return
\* grids that are equal cell for cell.
C2_Determinism ==
    (entry = "generateChunk" /\ calls = 2 /\ pc = "done") => data = first

\* both calls returned a grid with ores, trunks and leaves
C2_Witness ==
    /\ entry = "generateChunk" /\ calls = 2 /\ pc = "done"
    /\ Count(data, BlockID.Leaves) > 0
    /\ Count(data, BlockID.OakLog) > 0
    /\ \E c \in Cells : At(data, c) \in OreIDs

\* h is a height of column (x, z) of grid: solid up to h, Grass at h, Air above
IsSurface(grid, x, z, h) ==
    /\ \A y \in 0 .. h : grid[x][y][z] # BlockID.Air
    /\ grid[x][h][z] = BlockID.Grass
    /\ \A y \in (h + 1) .. (Height - 1) : grid[x][y][z] = BlockID.Air

\* C3: after generateTerrain, on any input grid, every column has exactly one
\* height h, the clamped terrain height, with cells 0 .. h non-Air, Grass at
\* h and Air above h.
C3_MonotoneColumns ==
    TerrainDone =>
        \A c \in Columns :
            /\ IsSurface(hist.terrain, c[1], c[2], hist.cols[c].height)
            /\ \A h \in Ys : IsSurface(hist.terrain, c[1], c[2], h)
                                => h = hist.cols[c].height

\* a direct call whose input held a block above the surface and an ore in
\* the stone band of some column
C3_Witness ==
    /\ TerrainDone
    /\ entry = "generateTerrain"
    /\ hist.input = Soup(chunkSize, params.seed)
    /\ \E c \in Columns :
          /\ hist.cols[c].height < Height - 1
          /\ Soup(chunkSize, params.seed)[c[1]][Height - 1][c[2]]
                # BlockID.Air
          /\ \E y \in Ys : hist.terrain[c[1]][y][c[2]] \in OreIDs

\* C4: after generateTerrain every cell with y < numBedrockBlocks(x, z) is
\* Bedrock, whatever the terrain height of the column.
C4_BedrockFloor ==
    TerrainDone =>
        \A c \in Cells :
            8 * c[2] < hist.cols[<<c[1], c[3]>>].bedrock8
                => At(hist.terrain, c) = BlockID.Bedrock

\* C5 as claimed: after generateResources and generateTerrain every cell that
\* still holds an ore has y strictly between numBedrockBlocks and
\* height - numSurfaceBlocks of its column.
C5_ResourcesStrictlyInside ==
    TerrainDone =>
        \A c \in Cells :
            At(hist.terrain, c) \in OreIDs =>
                LET info == hist.cols[<<c[1], c[3]>>]
                IN  /\ info.bedrock8 < 8 * c[2]
                    /\ 8 * c[2] < 8 * info.height - info.surface8

\* C5 as amended: every cell that still holds an ore after generateTerrain
\* has numBedrockBlocks <= y < height - numSurfaceBlocks for its column;
\* outside that band a cell holds Bedrock, Stone, Dirt, Grass or Air.
C5_ResourceContainment ==
    TerrainDone =>
        \A c \in Cells :
            LET info == hist.cols[<<c[1], c[3]>>]
                inBand == /\ info.bedrock8 <= 8 * c[2]
                          /\ 8 * c[2] < 8 * info.height - info.surface8
            IN  /\ At(hist.terrain, c) \in OreIDs => inBand
                /\ ~inBand => At(hist.terrain, c) \in
                                {BlockID.Bedrock, BlockID.Dirt, BlockID.Grass,
                                 BlockID.Air}

\* an ore stamped by generateResources survives generateTerrain at
\* y = numBedrockBlocks, the lower edge of the band
C5_Witness ==
    /\ TerrainDone
    /\ entry = "generateChunk"
    /\ \E c \in Cells :
          /\ At(hist.terrain, c) \in OreIDs
          /\ 8 * c[2] = hist.cols[<<c[1], c[3]>>].bedrock8

\* C6: with trees.frequency = 0 generateTrees places no OakLog and no Leaves
\* for any noise value in [-1, 1]: its grid stays the grid it was handed.
C6_NoTreesAtZeroFrequency ==
    (TreesEntered /\ params.trees.frequency = 0) => data = hist.treesIn

\* C7 as claimed: in the flat scenario the returned grid has Grass at
\* (x, 32, z) and Air at (x, 33, z) for all x, z, for every seed and tree
\* configuration.
C7_FlatSurfaceThenAir ==
    pc = "done" =>
        \A c \in Columns : /\ data[c[1]][32][c[2]] = BlockID.Grass
                            /\ data[c[1]][33][c[2]] = BlockID.Air

\* C7 as amended: in the flat scenario every column has terrain height 32;
\* the returned grid has Grass at (x, 32, z); (x, 33, z) is Air when the
\* terrain stage ends and Air, OakLog or Leaves in the returned grid.
C7_FlatSurface ==
    pc = "done" =>
        \A c \in Columns :
            /\ hist.cols[c].height = 32
            /\ data[c[1]][32][c[2]] = BlockID.Grass
            /\ hist.terrain[c[1]][33][c[2]] = BlockID.Air
            /\ data[c[1]][33][c[2]] \in
                  {BlockID.Air, BlockID.OakLog, BlockID.Leaves}

\* a returned flat chunk with a trunk, a leaf and free air right above the
\* grass
C7_Witness ==
    /\ pc = "done"
    /\ chunkSize = FlatSize
    /\ \E c \in Columns : data[c[1]][33][c[2]] = BlockID.OakLog
    /\ \E c \in Columns : data[c[1]][33][c[2]] = BlockID.Leaves
    /\ \E c \in Columns : data[c[1]][33][c[2]] = BlockID.Air

\* C8: a cell is set to Leaves only if it held Air immediately before.
C8_LeavesOnlyOverAir ==
    hist.write.new = BlockID.Leaves => hist.write.old = BlockID.Air

\* a canopy that placed a leaf after leaving an earlier tree's block alone
C8_Witness ==
    /\ hist.write.new = BlockID.Leaves
    /\ hist.skip \in {BlockID.Leaves, BlockID.OakLog}
    /\ pc = "done"

\* C9: a candidate column receives at most one tree and consumes at most one
\* trunkHeight draw and one radius draw, on any input grid.
C9_OneTreePerColumn == hist.planted <= 1 /\ hist.draws <= 2

\* C10: within generateChunk the tree stage changes only cells that were Air
\* after the terrain stage, so every column keeps its single Grass cell at
\* its terrain height and every OakLog or Leaves cell lies above it.
C10_TreesOnlyFillAir ==
    (entry = "generateChunk" /\ TreesEntered) =>
        /\ \A c \in Cells :
              /\ At(hist.terrain, c) # BlockID.Air
                    => At(data, c) = At(hist.terrain, c)
              /\ At(data, c) \in {BlockID.OakLog, BlockID.Leaves}
                    => c[2] > hist.cols[<<c[1], c[3]>>].height
        /\ \A c \in Columns : \A y \in Ys :
              data[c[1]][y][c[2]] = BlockID.Grass <=> y = hist.cols[c].height

\* generateChunk returned a grid with trunks and leaves
C10_Witness ==
    /\ entry = "generateChunk" /\ pc = "done"
    /\ Count(data, BlockID.OakLog) > 1
    /\ Count(data, BlockID.Leaves) > 1



=============================================================================
